---- MODULE Spec2Model ----
(***************************************************************************)
(* Conway's Game of Life (src/main.c): the cell grid, the start snapshot,  *)
(* the frame loop of main() with its event handlers, the paint/erase step  *)
(* and the two-pass generation advance (evaluation pass, commit pass).     *)
(***************************************************************************)
EXTENDS Integers, Sequences, FiniteSets, TLC

VARIABLES
    cells,           \* uint8_t cells[GRID_WIDTH * GRID_HEIGHT]
    previous_simul,  \* uint8_t previous_simul[GRID_WIDTH * GRID_HEIGHT]
    s_started,       \* simulation running
    tick,            \* frames since the last generation advance
    max_tick,        \* the tick threshold (speed)
    quit,            \* SDL_QUIT seen
    add_btn_down,    \* left mouse button held
    rem_btn_down,    \* right mouse button held
    disk,            \* bytes of the .gol file the file dialogs select, or NoFile
    pc,              \* where main() stands in the frame loop
    visit,           \* the order in which the running pass visits the cells
    pos,             \* position of the running pass in visit
    pass0,           \* history: the grid when the evaluation pass began
    start0,          \* history: the grid at the latest start, if any
    frames,          \* history: frames presented since the latest advance,
                     \* -1 before the first one
    edits,           \* history: what has changed cells in this frame so far
    saved0           \* history: the grid of the latest save of the current state

vars == <<cells, previous_simul, s_started, tick, max_tick, quit,
          add_btn_down, rem_btn_down, disk, pc, visit, pos, pass0, start0,
          frames, edits, saved0>>

\* ------------------------------------------------------------ constants
\* Bits of a cell byte (main.c:31-33).
CELL_ALIVE == 1
CELL_REVIVE == 2
CELL_DIE == 4

\* Side of a cell in pixels (main.c:40).
PIXEL_SIZE == 5

\* The grid, scaled down from the source's 256 x 144 (main.c:43-44). As in
\* the source, the number of cells is a multiple of sizeof(uint32_t), the
\* width differs from the height, and interior cells exist.
GRID_WIDTH == 4
GRID_HEIGHT == 3

\* The window covers the grid exactly, as 1280 x 720 covers 256 x 144
\* cells of 5 pixels in the source (main.c:36-37).
WINDOW_WIDTH == GRID_WIDTH * PIXEL_SIZE
WINDOW_HEIGHT == GRID_HEIGHT * PIXEL_SIZE

\* sizeof(cells): the number of cells, one byte each (main.c:77).
NCells == GRID_WIDTH * GRID_HEIGHT

Indices == 0 .. (NCells - 1)

\* ------------------------------------------------------------ bit helpers
\* b & CELL_ALIVE, b & CELL_REVIVE, b & CELL_DIE as truth values, b a byte.
HasAlive(b) == b % 2 = 1
HasRevive(b) == (b \div 2) % 2 = 1
HasDie(b) == (b \div 4) % 2 = 1

\* b |= CELL_REVIVE and b |= CELL_DIE.
OrRevive(b) == IF HasRevive(b) THEN b ELSE b + CELL_REVIVE
OrDie(b) == IF HasDie(b) THEN b ELSE b + CELL_DIE

\* Row-major linear index of cell (x, y).
Idx(x, y) == x + GRID_WIDTH * y

\* ------------------------------------------------------------ generation
\* Mutant of NeighborGuard: the border test made on the linear index, so
\* that a neighbour across a side edge wraps to the adjacent row.
NeighborGuardLinear(x, y, dx, dy) == Idx(x + dx, y + dy) \in Indices

\* The border tests of the eight neighbour reads: which of the offsets
\* (dx, dy) the code reads for cell (x, y).
NeighborGuard(x, y, dx, dy) ==
    /\ (dx = -1 => x # 0)
    /\ (dx = 1 => x # GRID_WIDTH - 1)
    /\ (dy = -1 => y # 0)
    /\ (dy = 1 => y # GRID_HEIGHT - 1)

\* Mutant of Offsets: the last of the eight reads left out.
OffsetsMissingOne == {<<-1, -1>>, <<0, -1>>, <<1, -1>>, <<-1, 0>>, <<1, 0>>,
                      <<-1, 1>>, <<0, 1>>}

Offsets == {<<-1, -1>>, <<0, -1>>, <<1, -1>>, <<-1, 0>>, <<1, 0>>,
            <<-1, 1>>, <<0, 1>>, <<1, 1>>}

\* Mutant of LiveNeighbors: a pending revive read as alive.
LiveNeighborsPending(g, x, y) ==
    Cardinality({d \in Offsets :
        /\ NeighborGuard(x, y, d[1], d[2])
        /\ \/ HasAlive(g[Idx(x + d[1], y + d[2])])
           \/ HasRevive(g[Idx(x + d[1], y + d[2])])})

\* live_neighbors of cell (x, y) in grid g: one increment per guarded read
\* whose byte has the alive bit.
LiveNeighbors(g, x, y) ==
    Cardinality({d \in Offsets :
        /\ NeighborGuard(x, y, d[1], d[2])
        /\ HasAlive(g[Idx(x + d[1], y + d[2])])})

\* Mutant of EvalByte: a dead cell is revived by two neighbours as well.
EvalByteReviveOnTwo(g, x, y) ==
    LET n == LiveNeighbors(g, x, y)
        b == g[Idx(x, y)]
    IN  IF n = 2 \/ n = 3
        THEN IF HasAlive(b) THEN b ELSE OrRevive(b)
        ELSE OrDie(b)

\* Mutant of EvalByte: the under/over-population branch left out.
EvalByteNoDie(g, x, y) ==
    LET n == LiveNeighbors(g, x, y)
        b == g[Idx(x, y)]
    IN  IF n = 2 \/ n = 3
        THEN IF HasAlive(b) THEN b
             ELSE IF n = 3 THEN OrRevive(b) ELSE b
        ELSE b

\* Mutant of EvalByte: the new state written at once instead of flagged.
EvalByteInPlace(g, x, y) ==
    LET n == LiveNeighbors(g, x, y)
        b == g[Idx(x, y)]
    IN  IF n = 2 \/ n = 3
        THEN IF HasAlive(b) THEN b
             ELSE IF n = 3 THEN CELL_ALIVE ELSE b
        ELSE 0

\* What the body of the evaluation loop does to the byte of cell (x, y).
EvalByte(g, x, y) ==
    LET n == LiveNeighbors(g, x, y)
        b == g[Idx(x, y)]
    IN  IF n = 2 \/ n = 3
        THEN IF HasAlive(b) THEN b
             ELSE IF n = 3 THEN OrRevive(b) ELSE b
        ELSE OrDie(b)

\* One iteration of the evaluation loop, at linear index i.
EvalCell(g, i) ==
    [g EXCEPT ![i] = EvalByte(g, i % GRID_WIDTH, i \div GRID_WIDTH)]

CommitByteOrAlive(b) ==
    IF HasRevive(b) THEN (IF HasAlive(b) THEN b ELSE b + CELL_ALIVE)
    ELSE IF HasDie(b) THEN 0
    ELSE b

\* What the body of the commit loop does to a byte.
CommitByte(b) ==
    IF HasRevive(b) THEN CELL_ALIVE
    ELSE IF HasDie(b) THEN 0
    ELSE b

\* One iteration of the commit loop, at linear index i.
CommitCell(g, i) == [g EXCEPT ![i] = CommitByte(g[i])]

\* The visiting order of both loops: y outer, x inner.
RowMajor == [k \in 1 .. NCells |-> k - 1]

RECURSIVE EvalFrom(_, _, _)
\* The evaluation loop over the cells order[k], order[k+1], ...
EvalFrom(g, order, k) ==
    IF k > Len(order) THEN g
    ELSE EvalFrom(EvalCell(g, order[k]), order, k + 1)

RECURSIVE CommitFrom(_, _, _)
\* The commit loop over the cells order[k], order[k+1], ...
CommitFrom(g, order, k) ==
    IF k > Len(order) THEN g
    ELSE CommitFrom(CommitCell(g, order[k]), order, k + 1)

EvalPass(g) == EvalFrom(g, RowMajor, 1)

CommitPass(g) == CommitFrom(g, RowMajor, 1)

\* One generation advance: the evaluation pass, then the commit pass.
GenerationAdvance(g) == CommitPass(EvalPass(g))

\* ------------------------------------------------------------ bounds
\* tick is an int that grows by one per frame; the model stops counting here.
MaxTick == 3

\* max_tick grows by one per scroll; the model stops scrolling up here.
MaxThreshold == 2

\* Largest magnitude of event.wheel.y the model feeds in.
MaxWheel == 2

\* ------------------------------------------------------------ inputs
Bytes01 == {0, CELL_ALIVE}

\* The grids painting and erasing can produce: every byte 0 or CELL_ALIVE.
Grids01 == [Indices -> Bytes01]

ZeroGrid == [i \in Indices |-> 0]

\* The file the dialogs select: absent, or its bytes in file order.
NoFile == [exists |-> FALSE, bytes |-> <<>>]

FileOf(g) == [exists |-> TRUE, bytes |-> [n \in 1 .. NCells |-> g[n - 1]]]

\* What a file dialog returns.
DialogResults == {"NFD_OKAY", "NFD_CANCEL", "NFD_ERROR"}

\* A file dialog the user never confirms.
DialogDismissed == {"NFD_CANCEL", "NFD_ERROR"}

WheelDeltas == (0 - MaxWheel) .. MaxWheel

Buttons == {"left", "right", "middle"}

\* Pointer positions (window pixels) fed to the paint step of the frame
\* loop: a position in the cell (1,0), and one position one cell above
\* the window, reported while a button is held during a drag.
Pointers ==
    {<<PIXEL_SIZE + 2, 2>>} \cup {<<2, 0 - PIXEL_SIZE>>}

\* The grid whose live cells are exactly the cells of the set live.
GridOf(live) == [i \in Indices |-> IF i \in live THEN CELL_ALIVE ELSE 0]

\* The horizontal and the vertical line of three cells centred on (x, y).
Horizontal(x, y) == GridOf({Idx(x - 1, y), Idx(x, y), Idx(x + 1, y)})
Vertical(x, y) == GridOf({Idx(x, y - 1), Idx(x, y), Idx(x, y + 1)})

\* A .gol file present when the program starts: a blinker.
BlinkerFile == FileOf(Horizontal(1, 1))

\* ------------------------------------------------------------ frame loop
\* C integer division truncates toward zero.
CDiv(a, b) == IF a >= 0 THEN a \div b ELSE 0 - ((0 - a) \div b)

\* Mutant of EditAllowed: the paint/erase step not gated.
EditAlways == TRUE

\* The gate of the paint/erase step.
EditAllowed == ~s_started

\* The gate of F2..F5 in the SDL_KEYUP handler.
CommandAllowed == ~s_started

\* Mutant of GenerationDue: the threshold test off by one.
GenerationDueWhilePaused == tick > max_tick

GenerationDueAtThreshold == s_started /\ tick >= max_tick

\* The two gates of the update step.
GenerationDue == s_started /\ tick > max_tick

\* Mutant of WheelThreshold: the floor left out.
WheelThresholdNoFloor(mt, wy) ==
    IF wy < 0 THEN mt + 1
    ELSE IF wy > 0 THEN mt - 1
    ELSE mt

WheelThresholdByDelta(mt, wy) == IF mt - wy <= 0 THEN 1 ELSE mt - wy

\* max_tick after a wheel event with vertical delta wy.
WheelThreshold(mt, wy) ==
    IF wy < 0 THEN mt + 1
    ELSE IF wy > 0 THEN (IF mt - 1 <= 0 THEN 1 ELSE mt - 1)
    ELSE mt

\* previous_simul after the F1 handler has toggled the flag to started.
SnapshotAfterToggle(started) == IF started THEN cells ELSE previous_simul

\* cells[i] = v of the paint step. An index inside the array writes that
\* cell. An index outside it is undefined behaviour: the byte written lies
\* in whatever the build placed next to cells; with previous_simul placed
\* directly before cells the byte is previous_simul[i + NCells], otherwise
\* it is memory the model does not hold.
WriteCell(i, v) ==
    IF i \in Indices
    THEN /\ cells' = [cells EXCEPT ![i] = v]
         /\ UNCHANGED previous_simul
    ELSE /\ UNCHANGED cells
         /\ \/ UNCHANGED previous_simul
            \/ /\ i + NCells \in Indices
               /\ previous_simul' = [previous_simul EXCEPT ![i + NCells] = v]

\* SDL_KEYUP, F1: toggle, and snapshot on start.
KeyUpF1 ==
    /\ pc = "events"
    /\ s_started' = ~s_started
    /\ previous_simul' = SnapshotAfterToggle(s_started')
    /\ start0' = IF ~s_started THEN [valid |-> TRUE, grid |-> cells] ELSE start0
    /\ UNCHANGED <<cells, tick, max_tick, quit, add_btn_down, rem_btn_down,
                   disk, pc, visit, pos, pass0, frames, edits, saved0>>

\* SDL_KEYUP, F2: clear, when not started.
KeyUpF2 ==
    /\ pc = "events"
    /\ cells' = IF CommandAllowed THEN ZeroGrid ELSE cells
    /\ edits' = IF cells' # cells THEN edits \cup {"clear"} ELSE edits
    /\ UNCHANGED <<previous_simul, s_started, tick, max_tick, quit,
                   add_btn_down, rem_btn_down, disk, pc, visit, pos, pass0,
                   start0, frames, saved0>>

\* SDL_KEYUP, F3: save. box is what SDL_ShowMessageBox returns and btn the
\* button it reports, result what the save dialog returns (one of results),
\* opened whether fopen returned a FILE. fwrite and fclose on a null FILE
\* are undefined: they end the process, or fail and leave the file alone.
KeyUpF3(results) ==
    /\ pc = "events"
    /\ \E box \in {-1, 0}, btn \in {-1, 0, 1}, result \in results,
          opened \in BOOLEAN :
        IF CommandAllowed /\ box >= 0 /\ result = "NFD_OKAY"
        THEN IF opened
             THEN /\ disk' = FileOf(IF btn = 1 THEN cells ELSE previous_simul)
                  /\ saved0' = [valid |-> btn = 1,
                                grid |-> IF btn = 1 THEN cells ELSE ZeroGrid]
                  /\ UNCHANGED pc
             ELSE /\ pc' \in {"crashed", pc}
                  /\ UNCHANGED <<disk, saved0>>
        ELSE UNCHANGED <<disk, pc, saved0>>
    /\ UNCHANGED <<cells, previous_simul, s_started, tick, max_tick, quit,
                   add_btn_down, rem_btn_down, visit, pos, pass0, start0,
                   frames, edits>>

LoadedCellsQuarter(g, bytes) ==
    LET want == NCells \div 4
        have == Len(bytes)
        items == IF have < want THEN have ELSE want
    IN  [i \in Indices |-> IF i < items THEN bytes[i + 1] ELSE g[i]]

\* fread(cells, sizeof(uint32_t), sizeof(cells) / sizeof(uint32_t), fp):
\* whole 4-byte items, as many as the file holds, at most NCells \div 4.
LoadedCells(g, bytes) ==
    LET want == NCells \div 4
        have == Len(bytes) \div 4
        items == IF have < want THEN have ELSE want
    IN  [i \in Indices |-> IF i < 4 * items THEN bytes[i + 1] ELSE g[i]]

\* SDL_KEYUP, F4: load, the open dialog returning one of results. fread and
\* fclose on a null FILE are undefined: they end the process, or fail and
\* leave the grid alone.
KeyUpF4(results) ==
    /\ pc = "events"
    /\ \E result \in results, opened \in BOOLEAN :
        IF CommandAllowed /\ result = "NFD_OKAY"
        THEN IF opened /\ disk.exists
             THEN /\ cells' = LoadedCells(cells, disk.bytes)
                  /\ UNCHANGED pc
             ELSE /\ pc' \in {"crashed", pc}
                  /\ UNCHANGED cells
        ELSE UNCHANGED <<cells, pc>>
    /\ edits' = IF cells' # cells THEN edits \cup {"load"} ELSE edits
    /\ UNCHANGED <<previous_simul, s_started, tick, max_tick, quit,
                   add_btn_down, rem_btn_down, disk, visit, pos, pass0, start0,
                   frames, saved0>>

\* SDL_KEYUP, F5 (help) or any other key.
KeyUpOther ==
    /\ pc = "events"
    /\ UNCHANGED vars

MouseButtonDown ==
    /\ pc = "events"
    /\ \E b \in Buttons :
        /\ add_btn_down' = IF b = "left" THEN TRUE ELSE add_btn_down
        /\ rem_btn_down' = IF b = "right" THEN TRUE ELSE rem_btn_down
    /\ UNCHANGED <<cells, previous_simul, s_started, tick, max_tick, quit,
                   disk, pc, visit, pos, pass0, start0, frames, edits, saved0>>

MouseButtonUp ==
    /\ pc = "events"
    /\ \E b \in Buttons :
        /\ add_btn_down' = IF b = "left" THEN FALSE ELSE add_btn_down
        /\ rem_btn_down' = IF b = "right" THEN FALSE ELSE rem_btn_down
    /\ UNCHANGED <<cells, previous_simul, s_started, tick, max_tick, quit,
                   disk, pc, visit, pos, pass0, start0, frames, edits, saved0>>

MouseWheel ==
    /\ pc = "events"
    /\ \E wy \in WheelDeltas :
        /\ WheelThreshold(max_tick, wy) <= MaxThreshold
        /\ max_tick' = WheelThreshold(max_tick, wy)
    /\ UNCHANGED <<cells, previous_simul, s_started, tick, quit,
                   add_btn_down, rem_btn_down, disk, pc, visit, pos, pass0, start0,
                   frames, edits, saved0>>

Quit ==
    /\ pc = "events"
    /\ quit' = TRUE
    /\ UNCHANGED <<cells, previous_simul, s_started, tick, max_tick,
                   add_btn_down, rem_btn_down, disk, pc, visit, pos, pass0, start0,
                   frames, edits, saved0>>

\* SDL_PollEvent returns 0: the event loop ends.
PollEmpty ==
    /\ pc = "events"
    /\ pc' = "edit"
    /\ UNCHANGED <<cells, previous_simul, s_started, tick, max_tick, quit,
                   add_btn_down, rem_btn_down, disk, visit, pos, pass0, start0,
                   frames, edits, saved0>>

\* cx = x / PIXEL_SIZE, cy = y / PIXEL_SIZE for the pointer position p.
CellOf(p) == <<CDiv(p[1], PIXEL_SIZE), CDiv(p[2], PIXEL_SIZE)>>

\* The paint/erase step, the pointer at one of the positions of pointers.
EditStep(pointers) ==
    /\ pc = "edit"
    /\ pc' = "update"
    /\ IF EditAllowed /\ (add_btn_down \/ rem_btn_down)
       THEN \E p \in pointers :
                LET cx == CellOf(p)[1]
                    cy == CellOf(p)[2]
                IN  WriteCell(cx + GRID_WIDTH * cy,
                              IF add_btn_down THEN CELL_ALIVE ELSE 0)
       ELSE UNCHANGED <<cells, previous_simul>>
    /\ edits' = IF cells' # cells THEN edits \cup {"paint"} ELSE edits
    /\ UNCHANGED <<s_started, tick, max_tick, quit, add_btn_down,
                   rem_btn_down, disk, visit, pos, pass0, start0, frames,
                   saved0>>

\* The update step, both passes at once.
UpdateSimulation ==
    /\ pc = "update"
    /\ pc' = "present"
    /\ IF GenerationDue
       THEN /\ cells' = GenerationAdvance(cells)
            /\ tick' = 0
            /\ frames' = 0
       ELSE UNCHANGED <<cells, tick, frames>>
    /\ UNCHANGED <<previous_simul, s_started, max_tick, quit, add_btn_down,
                   rem_btn_down, disk, visit, pos, pass0, start0, edits,
                   saved0>>

PresentWhileRunning ==
    /\ pc = "present"
    /\ tick < MaxTick
    /\ tick' = IF s_started THEN tick + 1 ELSE tick
    /\ pc' = IF quit THEN "exited" ELSE "events"
    /\ frames' = IF frames < 0 THEN frames ELSE frames + 1
    /\ edits' = {}
    /\ UNCHANGED <<cells, previous_simul, s_started, max_tick, quit,
                   add_btn_down, rem_btn_down, disk, visit, pos, pass0, start0,
                   saved0>>

\* Render, tick++, and the test of the main loop.
Present ==
    /\ pc = "present"
    /\ tick < MaxTick
    /\ tick' = tick + 1
    /\ pc' = IF quit THEN "exited" ELSE "events"
    /\ frames' = IF frames < 0 THEN frames ELSE frames + 1
    /\ edits' = {}
    /\ UNCHANGED <<cells, previous_simul, s_started, max_tick, quit,
                   add_btn_down, rem_btn_down, disk, visit, pos, pass0, start0,
                   saved0>>

\* The state when the main loop is entered, file the .gol file on disk.
InitWith(file) ==
    /\ cells = ZeroGrid
    /\ previous_simul = ZeroGrid
    /\ s_started = FALSE
    /\ tick = 0
    /\ max_tick = 1
    /\ quit = FALSE
    /\ add_btn_down = FALSE
    /\ rem_btn_down = FALSE
    /\ disk = file
    /\ pc = "events"
    /\ visit = RowMajor
    /\ pos = 1
    /\ pass0 = ZeroGrid
    /\ start0 = [valid |-> FALSE, grid |-> ZeroGrid]
    /\ frames = 0 - 1
    /\ edits = {}
    /\ saved0 = [valid |-> FALSE, grid |-> ZeroGrid]

Init == InitWith(BlinkerFile)

Next ==
    \/ KeyUpF1
    \/ KeyUpF2
    \/ KeyUpF3(DialogDismissed)
    \/ KeyUpF4(DialogResults)
    \/ KeyUpOther
    \/ MouseButtonDown
    \/ MouseButtonUp
    \/ MouseWheel
    \/ Quit
    \/ PollEmpty
    \/ EditStep(Pointers)
    \/ UpdateSimulation
    \/ Present

Spec == Init /\ [][Next]_vars

\* ------------------------------------------------------------ the rule
\* Frames of a running simulation with no input events, from any grid that
\* painting can produce: the state just after F1 has started it.
InitRule ==
    /\ cells \in Grids01
    /\ previous_simul = cells
    /\ s_started = TRUE
    /\ tick = MaxTick
    /\ max_tick = 1
    /\ quit = FALSE
    /\ add_btn_down = FALSE
    /\ rem_btn_down = FALSE
    /\ disk = NoFile
    /\ pc = "events"
    /\ visit = RowMajor
    /\ pos = 1
    /\ pass0 = cells
    /\ start0 = [valid |-> TRUE, grid |-> cells]
    /\ frames = 0 - 1
    /\ edits = {}
    /\ saved0 = [valid |-> FALSE, grid |-> ZeroGrid]

NextRule ==
    \/ PollEmpty
    \/ EditStep(Pointers)
    \/ UpdateSimulation
    \/ Present

SpecRule == InitRule /\ [][NextRule]_vars

\* ---------------------------------------------------------------------
\* The running frame loop with no input at all, for every threshold: the
\* simulation stays running and the threshold keeps its value.
\* ---------------------------------------------------------------------

InitCadence ==
    /\ cells \in Grids01
    /\ previous_simul = cells
    /\ s_started = TRUE
    /\ tick = MaxTick
    /\ max_tick \in 1 .. MaxThreshold
    /\ quit = FALSE
    /\ add_btn_down = FALSE
    /\ rem_btn_down = FALSE
    /\ disk = NoFile
    /\ pc = "events"
    /\ visit = RowMajor
    /\ pos = 1
    /\ pass0 = cells
    /\ start0 = [valid |-> TRUE, grid |-> cells]
    /\ frames = 0 - 1
    /\ edits = {}
    /\ saved0 = [valid |-> FALSE, grid |-> ZeroGrid]

SpecCadence == InitCadence /\ [][NextRule]_vars

\* ---------------------------------------------------------------------
\* The frame loop around the two file commands: the file on disk is state,
\* the save dialog can be confirmed, and the file present at the start is
\* one the program did not write. The grid changes by loads and generation
\* advances; no button is pressed.
\* ---------------------------------------------------------------------

\* A grid with the byte b at linear index i.
WithByte(g, i, b) == [g EXCEPT ![i] = b]

\* Files present at the start: a blinker the program could have written;
\* a dead cell with a stale revive bit; a blinker whose centre carries a
\* stale die bit, and one whose centre carries a bit above the flags; a
\* file cut short after two 4-byte items, all cells alive.
ForeignFiles ==
    {FileOf(Horizontal(1, 1)),
     FileOf(WithByte(ZeroGrid, Idx(2, 1), CELL_REVIVE)),
     FileOf(WithByte(Horizontal(1, 1), Idx(1, 1), CELL_ALIVE + CELL_DIE)),
     FileOf(WithByte(Horizontal(1, 1), Idx(1, 1), CELL_ALIVE + 2 * CELL_DIE)),
     [exists |-> TRUE, bytes |-> [n \in 1 .. 8 |-> CELL_ALIVE]]}

\* The pointer stays inside the cell (1,0).
PointersInside == {<<PIXEL_SIZE + 2, 2>>}

InitFile == \E file \in ForeignFiles : InitWith(file)

NextFile ==
    \/ KeyUpF1
    \/ KeyUpF3(DialogResults)
    \/ KeyUpF4(DialogResults)
    \/ PollEmpty
    \/ EditStep(PointersInside)
    \/ UpdateSimulation
    \/ Present

SpecFile == InitFile /\ [][NextFile]_vars

\* ------------------------------------------------------------ the passes
\* The update step cell by cell, each pass in a visiting order of its own.
Reverse(o) == [n \in 1 .. Len(o) |-> o[Len(o) + 1 - n]]

\* x outer, y inner.
ColMajor ==
    [n \in 1 .. NCells |-> Idx((n - 1) \div GRID_HEIGHT, (n - 1) % GRID_HEIGHT)]

\* Even linear indices first, then the odd ones.
Interleaved ==
    [n \in 1 .. NCells |->
        IF 2 * (n - 1) < NCells THEN 2 * (n - 1)
        ELSE 2 * (n - 1 - ((NCells + 1) \div 2)) + 1]

\* Visiting orders: the code's, and five others.
Orders == {RowMajor, Reverse(RowMajor), ColMajor, Reverse(ColMajor),
           Interleaved, Reverse(Interleaved)}

\* Grids a loaded file can leave: one byte with bits above the alive bit.
StaleGrids ==
    {[i \in Indices |-> IF i = j THEN b ELSE c] :
        j \in Indices, b \in 2 .. 7, c \in Bytes01}

BeginEval(orders) ==
    /\ pc = "update"
    /\ GenerationDue
    /\ \E o \in orders : visit' = o
    /\ pos' = 1
    /\ pass0' = cells
    /\ pc' = "eval"
    /\ UNCHANGED <<cells, previous_simul, s_started, tick, max_tick, quit,
                   add_btn_down, rem_btn_down, disk, start0,
                   frames, edits, saved0>>

EvalStep ==
    /\ pc = "eval"
    /\ pos <= NCells
    /\ cells' = EvalCell(cells, visit[pos])
    /\ pos' = pos + 1
    /\ UNCHANGED <<previous_simul, s_started, tick, max_tick, quit,
                   add_btn_down, rem_btn_down, disk, pc, visit, pass0, start0,
                   frames, edits, saved0>>

BeginCommit(orders) ==
    /\ pc = "eval"
    /\ pos > NCells
    /\ \E o \in orders : visit' = o
    /\ pos' = 1
    /\ pc' = "commit"
    /\ UNCHANGED <<cells, previous_simul, s_started, tick, max_tick, quit,
                   add_btn_down, rem_btn_down, disk, pass0, start0,
                   frames, edits, saved0>>

CommitStep ==
    /\ pc = "commit"
    /\ pos <= NCells
    /\ cells' = CommitCell(cells, visit[pos])
    /\ pos' = pos + 1
    /\ UNCHANGED <<previous_simul, s_started, tick, max_tick, quit,
                   add_btn_down, rem_btn_down, disk, pc, visit, pass0, start0,
                   frames, edits, saved0>>

\* Reset ticks, after the commit loop.
EndPass ==
    /\ pc = "commit"
    /\ pos > NCells
    /\ tick' = 0
    /\ frames' = 0
    /\ pc' = "present"
    /\ UNCHANGED <<cells, previous_simul, s_started, max_tick, quit,
                   add_btn_down, rem_btn_down, disk, visit, pos, pass0, start0,
                   edits, saved0>>

\* A running simulation at the update step with a generation due.
InitOrder ==
    /\ cells \in Grids01 \cup StaleGrids
    /\ previous_simul = cells
    /\ s_started = TRUE
    /\ tick = MaxTick
    /\ max_tick = 1
    /\ quit = FALSE
    /\ add_btn_down = FALSE
    /\ rem_btn_down = FALSE
    /\ disk = NoFile
    /\ pc = "update"
    /\ visit = RowMajor
    /\ pos = 1
    /\ pass0 = cells
    /\ start0 = [valid |-> TRUE, grid |-> cells]
    /\ frames = 0 - 1
    /\ edits = {}
    /\ saved0 = [valid |-> FALSE, grid |-> ZeroGrid]

NextOrder ==
    \/ BeginEval(Orders)
    \/ EvalStep
    \/ BeginCommit(Orders)
    \/ CommitStep
    \/ EndPass

SpecOrder == InitOrder /\ [][NextOrder]_vars

\* ---------------------------------------------------------------------
\* The frame loop from the all-zero grid with no file command: paint,
\* erase, clear, start, stop and scroll, the update step run cell by cell
\* in the order of the code.
\* ---------------------------------------------------------------------

\* The pointer moves over the cells (0,1), (1,1) and (2,1).
PointersRow == {<<PIXEL_SIZE * c + 2, PIXEL_SIZE + 2>> : c \in 0 .. 2}

\* The update step of a frame in which no generation is due.
UpdateIdle == ~GenerationDue /\ UpdateSimulation

InitOwn == InitWith(NoFile)

NextOwn ==
    \/ KeyUpF1
    \/ KeyUpF2
    \/ MouseButtonDown
    \/ MouseButtonUp
    \/ MouseWheel
    \/ PollEmpty
    \/ EditStep(PointersRow)
    \/ UpdateIdle
    \/ BeginEval({RowMajor})
    \/ EvalStep
    \/ BeginCommit({RowMajor})
    \/ CommitStep
    \/ EndPass
    \/ Present

SpecOwn == InitOwn /\ [][NextOwn]_vars

\* ------------------------------------------------------------ claims
Coords == (0 .. GRID_WIDTH - 1) \X (0 .. GRID_HEIGHT - 1)

\* The live cells among the Moore neighbours of (x, y) inside the grid.
MooreLive(g, x, y) ==
    {c \in Coords :
        /\ c # <<x, y>>
        /\ c[1] - x \in {-1, 0, 1}
        /\ c[2] - y \in {-1, 0, 1}
        /\ HasAlive(g[Idx(c[1], c[2])])}

LiveCount(g) == Cardinality({i \in Indices : HasAlive(g[i])})

\* The update step is about to advance the generation.
Advancing == pc = "update" /\ s_started /\ tick > max_tick

\* The update step of this frame has just advanced the generation.
JustAdvanced == pc = "present" /\ tick = 0

\* C1: one generation advance applies B3/S23 to every cell at once: on a
\* grid of bytes 0 or CELL_ALIVE, a cell is alive afterwards iff it was
\* alive with 2 or 3 live in-bounds Moore neighbours, or dead with exactly 3.
C1_RuleB3S23 ==
    [][(Advancing /\ cells \in Grids01) =>
        \A c \in Coords :
            LET n == Cardinality(MooreLive(cells, c[1], c[2]))
                was == HasAlive(cells[Idx(c[1], c[2])])
            IN  HasAlive(cells'[Idx(c[1], c[2])]) <=>
                    \/ was /\ n \in {2, 3}
                    \/ ~was /\ n = 3]_vars

\* An advance has just produced both a birth and a death.
C1_Witness ==
    /\ JustAdvanced
    /\ \E i, j \in Indices :
        /\ previous_simul[i] = 0 /\ cells[i] = CELL_ALIVE
        /\ previous_simul[j] = CELL_ALIVE /\ cells[j] = 0

\* C2: the live-neighbour count of every cell is the number of live cells
\* among its Moore neighbours inside the grid: nothing across an edge is
\* counted, nothing wraps to the adjacent row, the count is in 0..8 and at
\* most 3 for the corner (0,0).
C2_NeighbourCountClamped ==
    /\ \A c \in Coords :
        /\ LiveNeighbors(cells, c[1], c[2])
               = Cardinality(MooreLive(cells, c[1], c[2]))
        /\ LiveNeighbors(cells, c[1], c[2]) \in 0 .. 8
    /\ LiveNeighbors(cells, 0, 0) <= 3

\* A full grid about to be counted: 3 at the corner, 8 in the interior.
C2_Witness ==
    /\ Advancing
    /\ LiveCount(cells) = NCells
    /\ LiveNeighbors(cells, 0, 0) = 3
    /\ LiveNeighbors(cells, 1, 1) = 8

\* C3: generation isolation: at every point of the evaluation pass the
\* alive bit of every cell is its value when the pass began, so every
\* neighbour count is that of the committed generation.
C3_GenerationIsolation ==
    pc = "eval" =>
        /\ \A i \in Indices : HasAlive(cells[i]) <=> HasAlive(pass0[i])
        /\ \A c \in Coords :
            LiveNeighbors(cells, c[1], c[2]) = LiveNeighbors(pass0, c[1], c[2])

\* Midway through the evaluation pass, with a revive and a die pending.
C3_Witness ==
    /\ pc = "eval"
    /\ pos > 1
    /\ pos <= NCells
    /\ \E i, j \in Indices : HasRevive(cells[i]) /\ HasDie(cells[j])

\* C4: the grid a generation advance produces does not depend on the order
\* in which the evaluation pass and the commit pass visit the cells: it is
\* the grid the row-major passes produce.
C4_OrderIrrelevant ==
    (pc = "present" \/ (pc = "commit" /\ pos > NCells))
        => cells = GenerationAdvance(pass0)

\* Both passes done, the commit pass not row-major, cells born and dead.
C4_Witness ==
    /\ pc = "present"
    /\ visit = Reverse(ColMajor)
    /\ \E i, j \in Indices :
        /\ pass0[i] = 0 /\ cells[i] = CELL_ALIVE
        /\ pass0[j] = CELL_ALIVE /\ cells[j] = 0

\* C5: blinker: the horizontal line of three centred on an interior cell
\* becomes the vertical line in one advance, and the vertical line the
\* horizontal one in the next.
C5_Blinker ==
    [][Advancing =>
        \A x \in 1 .. GRID_WIDTH - 2, y \in 1 .. GRID_HEIGHT - 2 :
            /\ cells = Horizontal(x, y) => cells' = Vertical(x, y)
            /\ cells = Vertical(x, y) => cells' = Horizontal(x, y)]_vars

\* Started on a horizontal blinker, an advance has just restored it.
C5_Witness ==
    /\ JustAdvanced
    /\ \E x \in 1 .. GRID_WIDTH - 2, y \in 1 .. GRID_HEIGHT - 2 :
        /\ previous_simul = Horizontal(x, y)
        /\ cells = Horizontal(x, y)

\* C6: no spontaneous generation: an advance of the all-dead grid, or of a
\* grid with a single live cell, yields the all-dead grid.
C6_NoSpontaneousGeneration ==
    [][(Advancing /\ cells \in Grids01 /\ LiveCount(cells) <= 1)
        => cells' = ZeroGrid]_vars

\* Started with a single live cell, an advance has just left none.
C6_Witness ==
    /\ JustAdvanced
    /\ LiveCount(previous_simul) = 1
    /\ cells = ZeroGrid

C8_SnapshotKept == start0.valid => previous_simul = start0.grid

\* C9: speed floor: the tick threshold is at least 1.
C9_SpeedFloor == max_tick >= 1

\* Scrolled away from the initial threshold while running.
C9_Witness == s_started /\ max_tick = MaxThreshold

\* C10: generation boundary: the update step advances the generation and
\* resets the counter to 0 exactly when the simulation is running and
\* tick > max_tick; otherwise it leaves the grid and the counter alone, and
\* no other step of the frame resets the counter.
C10_GenerationBoundary ==
    [][/\ pc = "update" =>
            IF s_started /\ tick > max_tick
            THEN tick' = 0 /\ cells' = GenerationAdvance(cells)
            ELSE tick' = tick /\ cells' = cells
       /\ pc # "update" => tick' \in {tick, tick + 1}]_vars

\* An advance has just fired at the raised threshold.
C10_Witness ==
    /\ JustAdvanced
    /\ s_started
    /\ max_tick = MaxThreshold

\* C11 as stated: the counter is incremented in a running frame and left
\* alone in a paused one.
C11_TickOnlyWhileRunning ==
    [][pc = "present"
        => tick' = IF s_started THEN tick + 1 ELSE tick]_vars

\* C11: the end of every frame, paused or running, increments the tick
\* counter by one, and no step but that and the generation advance of
\* the update step changes it; so paused frames too drive the counter
\* past the threshold.
C11_TickEveryFrame ==
    [][/\ pc = "present" => tick' = tick + 1
       /\ pc \notin {"present", "update"} => tick' = tick]_vars

\* Never started, and the counter is past the threshold already.
C11_Witness ==
    /\ pc = "events"
    /\ ~start0.valid
    /\ ~s_started
    /\ tick > max_tick

\* An update step that advances the generation: it restarts the count of
\* frames since the latest advance.
AdvanceStep == pc = "update" /\ frames' = 0

\* C12 as stated: with the simulation running and the threshold constant,
\* a generation advance comes max_tick frames after the one before it.
C12_CadenceN ==
    [][(AdvanceStep /\ frames >= 0) => frames = max_tick]_vars

\* C12: cadence: while the simulation stays running and the threshold
\* keeps a constant value, any two consecutive generation advances are
\* exactly max_tick + 1 frames apart: the counter restarts at 0, is 1 at
\* the next update step, and must exceed the threshold.
C12_Cadence ==
    [][(AdvanceStep /\ frames >= 0) => frames = max_tick + 1]_vars

\* A second advance is due, at the largest threshold, on a live grid.
C12_Witness ==
    /\ Advancing
    /\ frames >= 0
    /\ max_tick = MaxThreshold
    /\ LiveCount(cells) > 0

MaxOf(a, b) == IF a >= b THEN a ELSE b

Sign(d) == IF d > 0 THEN 1 ELSE IF d < 0 THEN 0 - 1 ELSE 0

\* C13 as stated: a scroll event with a non-zero vertical delta d sets
\* the threshold to max(1, threshold - d), and a step that changes the
\* threshold changes neither the grid, the snapshot nor the running flag.
C13_ScrollByDelta ==
    [][/\ \A d \in WheelDeltas \ {0} :
            WheelThreshold(max_tick, d) = MaxOf(1, max_tick - d)
       /\ max_tick' # max_tick
            => UNCHANGED <<cells, previous_simul, s_started>>]_vars

\* C13: set_speed: a scroll event with a non-zero vertical delta d sets
\* the threshold to max(1, threshold - sign(d)): it moves the threshold
\* by one whatever the size of d; and a step that changes the threshold
\* changes neither the grid, the snapshot nor the running flag.
C13_ScrollByOne ==
    [][/\ \A d \in WheelDeltas \ {0} :
            WheelThreshold(max_tick, d) = MaxOf(1, max_tick - Sign(d))
       /\ max_tick' # max_tick
            => /\ \E d \in WheelDeltas \ {0} :
                    max_tick' = MaxOf(1, max_tick - Sign(d))
               /\ UNCHANGED <<cells, previous_simul, s_started>>]_vars

\* Scrolled away from the initial threshold while paused on a live grid.
C13_Witness ==
    /\ ~s_started
    /\ max_tick = MaxThreshold
    /\ LiveCount(cells) > 0

\* C14 as stated: a file-open failure during save or load is ignored and
\* the frame loop goes on: no state in which the process has crashed is
\* reachable.
C14_NeverCrashes == pc # "crashed"

\* The grid a file whose bytes are the alive bits of g would load.
AliveBits(g) == [i \in Indices |-> g[i] % 2]

\* C15 as stated: only bit 0 of a persisted byte matters: the grid a file
\* has loaded and the grid loaded from the file of its alive bits give,
\* at every generation advance, the same alive/dead value in every cell.
C15_OnlyAliveBitMatters ==
    [][Advancing =>
        \A i \in Indices :
            HasAlive(cells'[i])
                <=> HasAlive(GenerationAdvance(AliveBits(cells))[i])]_vars

\* What C16 says of a paused update step, of the steps that change the
\* grid while paused, and of the stop transition.
PausedGridSteps ==
    /\ (pc = "update" /\ ~s_started) => cells' = cells
    /\ (~s_started /\ cells' # cells) =>
            \/ pc = "events" /\ cells' = ZeroGrid
            \/ pc = "events" /\ cells' = LoadedCells(cells, disk.bytes)
            \/ /\ pc = "edit"
               /\ \E i \in Indices, v \in Bytes01 :
                    cells' = [cells EXCEPT ![i] = v]
    /\ (s_started /\ ~s_started')
            => UNCHANGED <<cells, previous_simul, max_tick>>

\* C16 as stated: while paused nothing steps the grid, the stop
\* transition changes no cell, snapshot or threshold, and in no frame do
\* both an edit (a paint, erase, clear or load that changed the grid) and
\* a generation commit modify the grid.
C16_NoEditAndCommit ==
    [][/\ PausedGridSteps
       /\ (pc = "update" /\ edits # {}) => cells' = cells]_vars

\* C16: while paused nothing steps the grid: a paused update step changes
\* no cell, a paused grid changes only by paint, erase, clear or load, and
\* the stop transition changes no cell, snapshot or threshold. In no frame
\* do both the paint step and a generation commit modify the grid; a clear
\* or load handled before a start toggle can share its frame with one.
C16_PausedGrid ==
    [][/\ PausedGridSteps
       /\ (pc = "update" /\ "paint" \in edits) => cells' = cells]_vars

\* Stopped after a start, painted in this frame, at the update step with
\* the counter past the threshold.
C16_Witness ==
    /\ pc = "update"
    /\ ~s_started
    /\ start0.valid
    /\ "paint" \in edits
    /\ tick > max_tick

\* C17 as stated: when the paint step is about to write (paused, a button
\* held), every pointer position the platform can report gives cell
\* coordinates inside the grid, so the index written is one of the grid.
C17_PaintInsideGrid ==
    (pc = "edit" /\ EditAllowed /\ (add_btn_down \/ rem_btn_down)) =>
        \A p \in Pointers :
            /\ CellOf(p)[1] \in 0 .. GRID_WIDTH - 1
            /\ CellOf(p)[2] \in 0 .. GRID_HEIGHT - 1
            /\ CellOf(p)[1] + GRID_WIDTH * CellOf(p)[2] \in Indices

\* C18: save/load round trip: while the file on disk is the latest save
\* of the current state, it holds W*H bytes, the byte of cell (x,y) at
\* offset x + W*y; a load issued in any paused state gives every cell its
\* value at save time, whatever the grid has become since; and every load
\* that changes the grid restores exactly the saved grid.
C18_RoundTrip ==
    [][saved0.valid =>
        /\ disk.exists
        /\ Len(disk.bytes) = GRID_WIDTH * GRID_HEIGHT
        /\ \A c \in Coords :
            disk.bytes[c[1] + GRID_WIDTH * c[2] + 1]
                = saved0.grid[Idx(c[1], c[2])]
        /\ (pc = "events" /\ CommandAllowed)
            => LoadedCells(cells, disk.bytes) = saved0.grid
        /\ (pc = "events" /\ cells' # cells) => cells' = saved0.grid]_vars

\* A load has just brought back the vertical blinker, which only a save
\* can have put on disk, over a different grid.
C18_Witness ==
    /\ saved0.valid
    /\ "load" \in edits
    /\ cells = Vertical(1, 1)
    /\ saved0.grid = cells

\* C19: no pending flag outlives its generation: with no file loaded,
\* every cell byte is 0 or CELL_ALIVE in every state outside the two
\* passes of the update step, the end of the frame included; at the end of
\* the evaluation pass no cell carries both REVIVE and DIE; and at the end
\* of the commit pass of the same frame every flag it set is cleared.
C19_NoStaleFlags ==
    /\ pc \notin {"eval", "commit"} => cells \in Grids01
    /\ (pc = "eval" /\ pos > NCells) =>
            \A i \in Indices : ~(HasRevive(cells[i]) /\ HasDie(cells[i]))
    /\ (pc = "commit" /\ pos > NCells) => cells \in Grids01

\* The commit pass has just ended a generation with a birth and a death.
C19_Witness ==
    /\ pc = "commit"
    /\ pos > NCells
    /\ \E i, j \in Indices :
        /\ pass0[i] = 0 /\ cells[i] = CELL_ALIVE
        /\ pass0[j] = CELL_ALIVE /\ cells[j] = 0

====
